---- MODULE Spec2Model ----
(***************************************************************************)
(* Job orchestration of the icon generator: the job table (JobQueue), the  *)
(* work unit run_generation executed on a worker thread, the status        *)
(* endpoint reading a Job object, the command line entry points, the       *)
(* generator's calls of the generation service, the job listing, the      *)
(* sweep of old jobs, and the functions of the generator and of the        *)
(* post-processor: the parameters built for a model, the aspect ratio      *)
(* label, the icon sizes and their mask, the post sizes, the variants of a *)
(* job and the wrapping of overlay text.                                   *)
(*                                                                         *)
(* Threads.  The HTTP handlers are coroutines of the server's event loop   *)
(* (one thread); every work unit runs on its own thread.  `async with      *)
(* self._lock` is taken as mutual exclusion between the bodies it guards.  *)
(* A handler body holds no await inside the lock, so it is one step; the   *)
(* body of update_job is executed by a worker thread and is modelled one   *)
(* attribute assignment at a time, because get_job_status reads the Job    *)
(* attributes after get_job has released the lock.                         *)
(*                                                                         *)
(* Optional values: None is <<>>, a present value x is <<x>>.              *)
(* Texts that the code inspects character by character (the subject) are   *)
(* sequences of one-character strings.                                     *)
(***************************************************************************)
EXTENDS Integers, Sequences, FiniteSets, TLC

VARIABLES
    jobs,      \* the Job objects, by id (an object outlives its table entry)
    table,     \* keys of JobQueue._jobs
    made,      \* number of Job objects constructed so far (ids are 1..made)
    task,      \* per job: position and locals of its run_generation call
    lock,      \* JobQueue._lock: 0 when free, else the id of the job whose worker holds it
    now,       \* wall clock, in seconds
    token,     \* whether Config.REPLICATE_API_TOKEN is set
    rd,        \* the status endpoint's current request, and what its client has read so far
    http,      \* last response of POST /generate
    cli,       \* last run of a command line command
    stamps,    \* per job: how many times completed_at has been assigned
    sealed,    \* per job: the Job as the update_job call that made it terminal returned it
    gen,       \* last call of IconGenerator.generate made outside a job, and its result
    listing,   \* last call of JobQueue.list_jobs, and its result
    fn         \* last direct call of a function of the generator or the post-processor

vars == <<jobs, table, made, task, lock, now, token, rd, http, cli, stamps, sealed, gen, listing, fn>>

----------------------------------------------------------------------------
\* Bounds of the model.

MaxJobs == 2
MaxTime == 1
PoolJobs == 3
ReadJobs == 1
EntryJobs == 1
MaxVariations == 3
ListJobs == 3
MaxDim == 12
MaxText == 5
MaxWidth == 4

----------------------------------------------------------------------------
\* Values.

None == <<>>
Some(x) == <<x>>

PENDING == "pending"
PROCESSING == "processing"
COMPLETED == "completed"
FAILED == "failed"

TerminalStatuses == {COMPLETED, FAILED}

max_workers == 2

SecondsPerHour == 3600

\* Python truthiness of an Optional[str]: None and "" are falsy.
Truthy(opt) == opt # None /\ opt[1] # ""

\* GenerateRequest: the fields the work unit reads.
Request(subject, style, custom_style) ==
    [subject |-> subject, style |-> style, custom_style |-> custom_style,
     variations |-> 4, remove_bg |-> FALSE, apply_mask |-> TRUE]

SubjectAB == <<"a", " ", "b">>
SubjectBlank == <<" ">>

ReqIos == Request(SubjectAB, "ios", None)
ReqCustom == Request(SubjectAB, "custom", Some("neon"))
ReqCustomMissing == Request(SubjectAB, "custom", None)
ReqCustomEmpty == Request(SubjectAB, "custom", Some(""))
ReqBlankSubject == Request(SubjectBlank, "ios", None)

\* Requests offered to the entry points.
Requests == {ReqIos, ReqCustomMissing}
EntryRequests == {ReqIos, ReqCustom, ReqCustomMissing, ReqCustomEmpty, ReqBlankSubject}

\* Messages an exception raised by the runtime or the operating system may carry;
\* str(MemoryError()) is the empty text.
ExcMessages == {"", "Permission denied"}

CustomStyleError == "custom_style is required when style is 'custom'"
TokenError == "REPLICATE_API_TOKEN not found"
FormatKeywordError == "build_prompt() got an unexpected keyword argument 'format'"
SubjectIndexError == "string index out of range"

\* Variant: the test `custom_style is None`, which lets the empty text through.
MissingCustomStyle_NoneOnly(req) == req.style = "custom" /\ req.custom_style = None

\* `style == "custom" and not custom_style`
MissingCustomStyle(req) == req.style = "custom" /\ ~Truthy(req.custom_style)

----------------------------------------------------------------------------
\* Job objects.

\* Variant: a job is created already PROCESSING.
NewJob_Processing(req, t) ==
    [request |-> req, status |-> PROCESSING, progress |-> 5, message |-> "Job queued",
     created_at |-> t, completed_at |-> None, variants |-> <<>>, error |-> None,
     output_dir |-> None, metadata |-> None]

NewJob(req, t) ==
    [request |-> req, status |-> PENDING, progress |-> 0, message |-> "Job queued",
     created_at |-> t, completed_at |-> None, variants |-> <<>>, error |-> None,
     output_dir |-> None, metadata |-> None]

\* backend: the generation service the unit's generate call ran against;
\* calls: how many times that call invoked replicate.run.
NewTask ==
    [pc |-> "queued", call |-> "none", k |-> 0, exc |-> None, dir |-> None,
     backend |-> None, calls |-> 0]

\* Config.IOS_ICON_SIZES, and the file generate_all_sizes writes for a size.
IOS_ICON_SIZES == <<1024, 180, 120, 167, 152, 76, 60, 40, 29, 20>>

AppIconName(size) == <<"AppIcon-", size, ".png">>

\* c.isalnum() for the characters that occur in the modelled subjects.
Alnum == {"a", "b"}

CleanSubject(subject) ==
    [i \in DOMAIN subject |->
        IF subject[i] \in Alnum \/ subject[i] \in {"-", "_"} THEN subject[i] ELSE "_"]

\* Directory name f"{clean_subject}-{timestamp}", timestamp to the second.
OutputDirName(subject, t) == <<CleanSubject(subject), t>>

RECURSIVE LStrip(_)
LStrip(s) == IF s # <<>> /\ Head(s) = " " THEN LStrip(Tail(s)) ELSE s

RECURSIVE RStrip(_)
RStrip(s) == IF s # <<>> /\ s[Len(s)] = " " THEN RStrip(SubSeq(s, 1, Len(s) - 1)) ELSE s

Strip(s) == RStrip(LStrip(s))

\* Keyword parameters IconPrompts.build_prompt declares, and the keywords
\* IconGenerator.generate passes to it.
build_prompt_params == {"subject", "style", "color", "extra_style", "custom_style"}
generate_prompt_keywords == {"style", "color", "custom_style", "format"}

\* IconGenerator.generate up to its first call of the backend: the text of the
\* exception it raises, or None when it gets as far as replicate.run.
generate(req) ==
    IF Strip(req.subject) = <<>> THEN Some(SubjectIndexError)
    ELSE IF ~(generate_prompt_keywords \subseteq build_prompt_params) THEN Some(FormatKeywordError)
    ELSE None

----------------------------------------------------------------------------
\* The generation service and IconGenerator.generate as a whole.

\* Config.MODELS: the capabilities generate reads.  Guidance scales are in
\* tenths (7.0 is 70).
MODELS ==
    ("sdxl" :> [supports_negative_prompt |-> TRUE, supports_num_outputs |-> TRUE,
                default_steps |-> 30, default_guidance |-> 70,
                size_param |-> "width_height"])
    @@ ("flux-schnell" :> [supports_negative_prompt |-> FALSE, supports_num_outputs |-> TRUE,
                           default_steps |-> 4, default_guidance |-> 0,
                           size_param |-> "aspect_ratio"])
    @@ ("flux-dev" :> [supports_negative_prompt |-> FALSE, supports_num_outputs |-> TRUE,
                       default_steps |-> 28, default_guidance |-> 35,
                       size_param |-> "aspect_ratio"])
    @@ ("flux-pro" :> [supports_negative_prompt |-> FALSE, supports_num_outputs |-> FALSE,
                       default_steps |-> 25, default_guidance |-> 30,
                       size_param |-> "aspect_ratio", output_format |-> "png"])

DEFAULT_MODEL == "sdxl"

\* Values of --model: the configured models and one that is not configured.
ModelKeys == DOMAIN MODELS \cup {"dalle"}

UnknownModelError == "Unknown model"
BackendError == "Prediction failed"
DownloadError == "Invalid URL: No scheme supplied"

\* What one replicate.run call gives back: a list of that many images (0 or more),
\* or the call raises, or it returns an object that is neither a list nor iterable.
RunRaises == -1
RunMalformed == -2

\* A generation service: its call number fails_at raises (0: none does), every
\* other call returns `output`.
Backend(fails_at, output) == [fails_at |-> fails_at, output |-> output]

replicate_run(b, call) == IF b.fails_at = call THEN RunRaises ELSE b.output

\* Services a caller of generate may face.
Backends ==
    {Backend(f, o) : f \in {0, 1, 2}, o \in {RunMalformed, 0, 1, MaxVariations}}

\* Services a work unit may face: one image per requested variation, or none.
JobBackends == {Backend(0, 4), Backend(0, 0)}

NoResult == [exc |-> None, calls |-> 0, paths |-> <<>>]

\* The loop `for i in range(variations)` of a model without num_outputs, from
\* iteration i on: one call per iteration, the first image of a non-empty
\* output saved as variant-i, an empty output skipped.  _extract_outputs wraps a
\* malformed output in a list, and _download_image then fails to fetch it.
RECURSIVE one_at_a_time(_, _, _, _)
one_at_a_time(b, variations, i, paths) ==
    IF i > variations THEN [exc |-> None, calls |-> variations, paths |-> paths]
    ELSE LET output == replicate_run(b, i)
         IN IF output = RunRaises
            THEN [exc |-> Some(BackendError), calls |-> i, paths |-> <<>>]
            ELSE IF output = RunMalformed
            THEN [exc |-> Some(DownloadError), calls |-> i, paths |-> <<>>]
            ELSE one_at_a_time(b, variations, i + 1,
                               IF output > 0 THEN Append(paths, i) ELSE paths)

\* The single call of a model with num_outputs: outputs[:variations] saved as
\* variant-1, variant-2, ...
all_at_once(b, variations) ==
    LET output == replicate_run(b, 1)
    IN IF output = RunRaises
       THEN [exc |-> Some(BackendError), calls |-> 1, paths |-> <<>>]
       ELSE IF output = RunMalformed
       THEN [exc |-> Some(DownloadError), calls |-> 1, paths |-> <<>>]
       ELSE [exc |-> None, calls |-> 1,
             paths |-> [idx \in 1..(IF output < variations THEN output ELSE variations) |-> idx]]

\* IconGenerator.generate(subject, ..., variations, model): the exception it
\* raises if any, the number of replicate.run calls it made, and the numbers of
\* the variant files it returns.
generate_result(req, model, variations, b) ==
    IF generate(req) # None THEN [NoResult EXCEPT !.exc = generate(req)]
    ELSE IF model \notin DOMAIN MODELS THEN [NoResult EXCEPT !.exc = Some(UnknownModelError)]
    ELSE IF ~MODELS[model].supports_num_outputs THEN one_at_a_time(b, variations, 1, <<>>)
    ELSE all_at_once(b, variations)

----------------------------------------------------------------------------
\* JobQueue.update_job: the keyword arguments of each call site and the
\* attribute assignments the body performs for them, in program order.

NoArgs ==
    [status |-> None, progress |-> None, message |-> None, variants |-> None,
     error |-> None, output_dir |-> None, metadata |-> None]

\* Variant: the first call reports progress without setting the status.
UpdateArgs_NoProcessing(call, t) ==
    CASE call = "processing" ->
            [NoArgs EXCEPT !.progress = Some(5),
                           !.message = Some("Initializing generator...")]
      [] call = "starting" ->
            [NoArgs EXCEPT !.progress = Some(10),
                           !.message = Some("Starting AI generation..."),
                           !.output_dir = t.dir]
      [] call = "failed" ->
            [NoArgs EXCEPT !.status = Some(FAILED), !.progress = Some(0),
                           !.message = Some("Generation failed"),
                           !.error = t.exc]

UpdateArgs(call, t) ==
    CASE call = "processing" ->
            [NoArgs EXCEPT !.status = Some(PROCESSING), !.progress = Some(5),
                           !.message = Some("Initializing generator...")]
      [] call = "starting" ->
            [NoArgs EXCEPT !.progress = Some(10),
                           !.message = Some("Starting AI generation..."),
                           !.output_dir = t.dir]
      [] call = "failed" ->
            [NoArgs EXCEPT !.status = Some(FAILED), !.progress = Some(0),
                           !.message = Some("Generation failed"),
                           !.error = t.exc]

\* Variant: error assigned before status.
FieldOrder_ErrorFirst ==
    <<"error", "status", "completed_at", "progress", "message", "variants",
      "output_dir", "metadata">>

\* Variant: progress assigned before status.
FieldOrder_ProgressFirst ==
    <<"progress", "status", "completed_at", "message", "variants", "error",
      "output_dir", "metadata">>

FieldOrder ==
    <<"status", "completed_at", "progress", "message", "variants", "error",
      "output_dir", "metadata">>

\* Variant: completed_at stamped on every status change.
StampsCompletion_AnyStatus(a) == a.status # None

\* `status == JobStatus.COMPLETED or status == JobStatus.FAILED`
StampsCompletion(a) == a.status # None /\ a.status[1] \in TerminalStatuses

HasWrite(a, f) == IF f = "completed_at" THEN StampsCompletion(a) ELSE a[f] # None

Writes(a) == SelectSeq(FieldOrder, LAMBDA f : HasWrite(a, f))

ApplyWrite(job, f, a, t) ==
    CASE f = "status" -> [job EXCEPT !.status = a.status[1]]
      [] f = "completed_at" -> [job EXCEPT !.completed_at = Some(t)]
      [] f = "progress" -> [job EXCEPT !.progress = a.progress[1]]
      [] f = "message" -> [job EXCEPT !.message = a.message[1]]
      [] f = "variants" -> [job EXCEPT !.variants = a.variants[1]]
      [] f = "error" -> [job EXCEPT !.error = a.error]
      [] f = "output_dir" -> [job EXCEPT !.output_dir = a.output_dir]
      [] f = "metadata" -> [job EXCEPT !.metadata = a.metadata]

\* Variant: the unit goes back to generation after it has reported the failure.
After_Retry(call) ==
    CASE call = "processing" -> "validate"
      [] call = "starting" -> "generate"
      [] call = "failed" -> "generate"

\* Where run_generation continues when an update_job call returns.
After(call) ==
    CASE call = "processing" -> "validate"
      [] call = "starting" -> "generate"
      [] call = "failed" -> "finally"

\* The `except Exception as e` clause: the next statement is update_job(FAILED, error=str(e)).
Raise(t, msg) == [t EXCEPT !.pc = "update", !.call = "failed", !.k = 0, !.exc = Some(msg)]

Call(t, call) == [t EXCEPT !.pc = "update", !.call = call, !.k = 0]

----------------------------------------------------------------------------
\* Initial state: an empty job table, no request served yet.

NoCall == [op |-> "none", args |-> <<>>, result |-> <<>>]

NoSnapshot ==
    [status |-> None, progress |-> None, message |-> None, created_at |-> None,
     completed_at |-> None, variants |-> None, error |-> None, metadata |-> None]

Init ==
    /\ jobs = <<>>
    /\ table = {}
    /\ made = 0
    /\ task = <<>>
    /\ lock = 0
    /\ now = 0
    /\ token \in BOOLEAN
    /\ rd = [pc |-> "idle", job |-> 0, k |-> 0, snap |-> NoSnapshot, seen |-> <<>>]
    /\ http = [code |-> 0, request |-> ReqIos, job_id |-> 0, detail |-> ""]
    /\ cli = [command |-> "none", request |-> ReqIos, outcome |-> "none", generate_called |-> FALSE]
    /\ stamps = <<>>
    /\ sealed = <<>>
    /\ gen = [called |-> FALSE, request |-> ReqIos, model |-> DEFAULT_MODEL, variations |-> 0,
              backend |-> Backend(0, 0), result |-> NoResult]
    /\ listing = [called |-> FALSE, limit |-> 0, stored |-> {}, result |-> <<>>]
    /\ fn = NoCall

----------------------------------------------------------------------------
\* Submission.

\* JobQueue.create_job followed by the scheduling of run_generation for the new job.
create_job(req) ==
    /\ lock = 0
    /\ made' = made + 1
    /\ jobs' = Append(jobs, NewJob(req, now))
    /\ table' = table \cup {made + 1}
    /\ task' = Append(task, NewTask)
    /\ stamps' = Append(stamps, 0)
    /\ sealed' = Append(sealed, None)

\* POST /generate.
generate_icons(req, cap) ==
    IF MissingCustomStyle(req)
    THEN /\ http' = [code |-> 400, request |-> req, job_id |-> 0, detail |-> CustomStyleError]
         /\ UNCHANGED <<jobs, table, made, task, lock, now, token, rd, cli, stamps, sealed, gen, listing, fn>>
    ELSE /\ made < cap
         /\ create_job(req)
         /\ http' = [code |-> 200, request |-> req, job_id |-> made + 1, detail |-> PENDING]
         /\ UNCHANGED <<lock, now, token, rd, cli, gen, listing, fn>>

\* The orchestrator entered without the HTTP handler: create_job and run_generation
\* called by any other caller, for any request.
submit_job(req, cap) ==
    /\ made < cap
    /\ create_job(req)
    /\ UNCHANGED <<lock, now, token, rd, http, cli, gen, listing, fn>>

----------------------------------------------------------------------------
\* The work unit run_generation(job, base_url), one job per worker thread.

\* The thread starts the unit: asyncio.new_event_loop() and set_event_loop(), which
\* stand before the try block; an exception there leaves the function.
start_unit(j) ==
    /\ task[j].pc = "queued"
    /\ \/ task' = [task EXCEPT ![j] = Call(@, "processing")]
       \/ task' = [task EXCEPT ![j].pc = "crashed"]
    /\ UNCHANGED <<jobs, table, made, lock, now, token, rd, http, cli, stamps, sealed, gen, listing, fn>>

\* update_job: acquire the lock and look the job up.
update_job_enter(j) ==
    /\ task[j].pc = "update"
    /\ task[j].k = 0
    /\ lock = 0
    /\ IF j \in table
       THEN /\ lock' = j
            /\ task' = [task EXCEPT ![j].k = 1]
       ELSE /\ lock' = 0
            /\ task' = [task EXCEPT ![j].pc = After(task[j].call)]
    /\ UNCHANGED <<jobs, table, made, now, token, rd, http, cli, stamps, sealed, gen, listing, fn>>

\* update_job: the next attribute assignment; after the last one, return and release.
update_job_write(j) ==
    /\ task[j].pc = "update"
    /\ task[j].k >= 1
    /\ lock = j
    /\ LET a == UpdateArgs(task[j].call, task[j])
           w == Writes(a)
           f == w[task[j].k]
       IN /\ jobs' = [jobs EXCEPT ![j] = ApplyWrite(@, f, a, now)]
          /\ stamps' = [stamps EXCEPT ![j] = IF f = "completed_at" /\ @ < 2 THEN @ + 1 ELSE @]
          /\ sealed' = IF task[j].k = Len(w) /\ StampsCompletion(a) /\ sealed[j] = None
                       THEN [sealed EXCEPT ![j] = Some(jobs'[j])]
                       ELSE sealed
          /\ IF task[j].k = Len(w)
             THEN /\ lock' = 0
                  /\ task' = [task EXCEPT ![j].pc = After(task[j].call), ![j].k = 0]
             ELSE /\ lock' = lock
                  /\ task' = [task EXCEPT ![j].k = @ + 1]
    /\ UNCHANGED <<table, made, now, token, rd, http, cli, gen, listing, fn>>

\* `if job.request.style.value == "custom" and not job.request.custom_style: raise ValueError`
validate_custom_style(j) ==
    /\ task[j].pc = "validate"
    /\ task' = [task EXCEPT ![j] =
                    IF MissingCustomStyle(jobs[j].request)
                    THEN Raise(@, CustomStyleError)
                    ELSE [@ EXCEPT !.pc = "config"]]
    /\ UNCHANGED <<jobs, table, made, lock, now, token, rd, http, cli, stamps, sealed, gen, listing, fn>>

\* Config.validate() and IconGenerator(): both raise ValueError without a token.
config_validate(j) ==
    /\ task[j].pc = "config"
    /\ task' = [task EXCEPT ![j] =
                    IF ~token THEN Raise(@, TokenError) ELSE [@ EXCEPT !.pc = "outdir"]]
    /\ UNCHANGED <<jobs, table, made, lock, now, token, rd, http, cli, stamps, sealed, gen, listing, fn>>

\* Config.get_output_dir(job.request.subject): names the directory after the cleaned
\* subject and the current second and creates it; the call can fail.
get_output_dir(j) ==
    /\ task[j].pc = "outdir"
    /\ \/ LET d == OutputDirName(jobs[j].request.subject, now)
          IN task' = [task EXCEPT ![j] = Call([@ EXCEPT !.dir = Some(d)], "starting")]
       \/ \E m \in ExcMessages : task' = [task EXCEPT ![j] = Raise(@, m)]
    /\ UNCHANGED <<jobs, table, made, lock, now, token, rd, http, cli, stamps, sealed, gen, listing, fn>>

\* generator.generate(...) with the default model, against whatever the generation
\* service does: it raises, or returns the paths of the images it saved.
run_generate(j) ==
    /\ task[j].pc = "generate"
    /\ \E b \in JobBackends :
          LET req == jobs[j].request
              r == generate_result(req, DEFAULT_MODEL, req.variations, b)
              t == [task[j] EXCEPT !.backend = Some(b), !.calls = r.calls]
          IN task' = [task EXCEPT ![j] =
                         IF r.exc # None THEN Raise(t, r.exc[1]) ELSE [t EXCEPT !.pc = "backend"]]
    /\ UNCHANGED <<jobs, table, made, lock, now, token, rd, http, cli, stamps, sealed, gen, listing, fn>>

\* `finally: loop.close()`, the end of the unit.
finally_close(j) ==
    /\ task[j].pc = "finally"
    /\ task' = [task EXCEPT ![j].pc = "done"]
    /\ UNCHANGED <<jobs, table, made, lock, now, token, rd, http, cli, stamps, sealed, gen, listing, fn>>

WorkerStep(j) ==
    \/ start_unit(j)
    \/ update_job_enter(j)
    \/ update_job_write(j)
    \/ validate_custom_style(j)
    \/ config_validate(j)
    \/ get_output_dir(j)
    \/ run_generate(j)
    \/ finally_close(j)

----------------------------------------------------------------------------
\* GET /status/{job_id}: get_job under the lock, then the attribute reads that
\* build JobStatusResponse, in argument order.

ReadOrder ==
    <<"status", "progress", "message", "created_at", "completed_at", "variants",
      "error", "metadata">>

\* JobQueue.get_job as called by get_job_status; an unknown id answers 404.
get_job(j) ==
    /\ rd.pc \in {"idle", "done", "not_found"}
    /\ lock = 0
    /\ rd' = IF j \in table
             THEN [rd EXCEPT !.pc = "reading", !.job = j, !.k = 1, !.snap = NoSnapshot]
             ELSE [rd EXCEPT !.pc = "not_found", !.job = j, !.k = 0, !.snap = NoSnapshot]
    /\ UNCHANGED <<jobs, table, made, task, lock, now, token, http, cli, stamps, sealed, gen, listing, fn>>

\* The client's record of the progress values it has read from job j while the job
\* was PENDING or PROCESSING: the value before the latest one, and the latest one.
Seen(seen, j, p) ==
    [i \in DOMAIN seen \cup {j} |->
        IF i # j THEN seen[i]
        ELSE IF j \in DOMAIN seen THEN <<seen[j][2], p>> ELSE <<p, p>>]

get_job_status_read ==
    /\ rd.pc = "reading"
    /\ LET f == ReadOrder[rd.k]
           job == jobs[rd.job]
       IN rd' = [rd EXCEPT !.snap[f] = Some(job[f]),
                           !.k = IF rd.k = Len(ReadOrder) THEN 0 ELSE @ + 1,
                           !.pc = IF rd.k = Len(ReadOrder) THEN "done" ELSE @,
                           !.seen = IF f = "progress" /\ job.status \in {PENDING, PROCESSING}
                                    THEN Seen(@, rd.job, job.progress)
                                    ELSE @]
    /\ UNCHANGED <<jobs, table, made, task, lock, now, token, http, cli, stamps, sealed, gen, listing, fn>>

----------------------------------------------------------------------------
\* JobQueue.cleanup_old_jobs(max_age_hours).

\* Thresholds passed to the sweep: a negative one, none, and the default of 24 hours.
CleanupAges == {-1, 0, 24}

\* Variant: the sweep decides by age alone.
Doomed_AnyStatus(h) ==
    {j \in table : (now - jobs[j].created_at) > SecondsPerHour * h}

Doomed(h) ==
    {j \in table : /\ (now - jobs[j].created_at) > SecondsPerHour * h
                   /\ jobs[j].status \in TerminalStatuses}

cleanup_old_jobs(h) ==
    /\ lock = 0
    /\ Doomed(h) # {}
    /\ table' = table \ Doomed(h)
    /\ UNCHANGED <<jobs, made, task, lock, now, token, rd, http, cli, stamps, sealed, gen, listing, fn>>

----------------------------------------------------------------------------
\* JobQueue.list_jobs(limit), as GET /jobs calls it with any integer.

\* sorted(self._jobs.values(), key=created_at, reverse=True): newest first; the sort
\* is stable, so jobs created at the same instant stay in insertion order.
RECURSIVE sorted_by_created_at(_)
sorted_by_created_at(ids) ==
    IF ids = {} THEN <<>>
    ELSE LET first == CHOOSE j \in ids :
                          \A i \in ids :
                              \/ jobs[j].created_at > jobs[i].created_at
                              \/ jobs[j].created_at = jobs[i].created_at /\ j <= i
         IN <<first>> \o sorted_by_created_at(ids \ {first})

\* s[:limit]: a negative limit counts from the end.
slice_to(s, limit) ==
    SubSeq(s, 1, IF limit >= 0
                 THEN (IF limit < Len(s) THEN limit ELSE Len(s))
                 ELSE (IF Len(s) + limit > 0 THEN Len(s) + limit ELSE 0))

Limits == {-1, 0, 1, 2, 20}

list_jobs(limit) ==
    /\ lock = 0
    /\ listing' = [called |-> TRUE, limit |-> limit, stored |-> table,
                   result |-> slice_to(sorted_by_created_at(table), limit)]
    /\ UNCHANGED <<jobs, table, made, task, lock, now, token, rd, http, cli, stamps, sealed, gen, fn>>

Tick ==
    /\ now < MaxTime
    /\ now' = now + 1
    /\ UNCHANGED <<jobs, table, made, task, lock, token, rd, http, cli, stamps, sealed, gen, listing, fn>>

----------------------------------------------------------------------------
\* The command line: `generate` and `instagram` validate and call the generator
\* in the same order; each run is one sequential process.

cli_outcome(req) ==
    IF MissingCustomStyle(req) THEN [outcome |-> "custom_style_required", generate_called |-> FALSE]
    ELSE IF ~token THEN [outcome |-> "configuration_error", generate_called |-> FALSE]
    ELSE IF generate(req) # None THEN [outcome |-> "error", generate_called |-> TRUE]
    ELSE [outcome |-> "backend", generate_called |-> TRUE]

cli_command(command, req) ==
    /\ cli' = [command |-> command, request |-> req,
               outcome |-> cli_outcome(req).outcome,
               generate_called |-> cli_outcome(req).generate_called]
    /\ UNCHANGED <<jobs, table, made, task, lock, now, token, rd, http, stamps, sealed, gen, listing, fn>>

----------------------------------------------------------------------------
\* IconGenerator.generate called by a command (`generate --model M --variations N`)
\* or any other caller; IconGenerator() needs the token.

generate_call(req, model, variations, b) ==
    /\ token
    /\ gen' = [called |-> TRUE, request |-> req, model |-> model, variations |-> variations,
               backend |-> b, result |-> generate_result(req, model, variations, b)]
    /\ UNCHANGED <<jobs, table, made, task, lock, now, token, rd, http, cli, stamps, sealed, listing, fn>>

----------------------------------------------------------------------------
\* IconGenerator._get_flux_aspect_ratio.  A label "a:b" is the pair <<a, b>>.
\* The functions of the generator and the post-processor keep no state between
\* calls, so a behaviour makes one direct call and fn records it.

Abs(x) == IF x < 0 THEN -x ELSE x

\* The candidates and directions <<a, b, s>> for which the double comparison
\* abs(width / height - a / b) < 0.1 is true although width / height lies exactly
\* 1/10 away from a / b (s = -1 below it, s = 1 above it): the rounding of the
\* quotient, of a / b and of 0.1 leaves the computed difference below the
\* computed tolerance.  In the other nine cases the comparison is false.
RoundsBelow ==
    {<<1, 1, -1>>, <<16, 9, -1>>, <<9, 16, -1>>, <<9, 16, 1>>, <<4, 5, 1>>,
     <<4, 3, -1>>, <<3, 4, -1>>, <<3, 4, 1>>, <<2, 3, -1>>}

\* abs(ratio - a / b) < 0.1 for ratio = width / height, in double arithmetic:
\* the exact comparison of 10 * |width * b - a * height| with height * b, and
\* RoundsBelow where the two are equal.  Away from equality the rounding errors
\* are far smaller than the gap, which is at least 1 / (10 * height * b).
Close(width, height, a, b) ==
    LET d == 10 * Abs(width * b - a * height)
        t == height * b
    IN \/ d < t
       \/ d = t /\ <<a, b, IF width * b > a * height THEN 1 ELSE -1>> \in RoundsBelow

get_flux_aspect_ratio(width, height) ==
    IF Close(width, height, 1, 1) THEN <<1, 1>>
    ELSE IF Close(width, height, 16, 9) THEN <<16, 9>>
    ELSE IF Close(width, height, 9, 16) THEN <<9, 16>>
    ELSE IF Close(width, height, 4, 5) THEN <<4, 5>>
    ELSE IF Close(width, height, 5, 4) THEN <<5, 4>>
    ELSE IF Close(width, height, 4, 3) THEN <<4, 3>>
    ELSE IF Close(width, height, 3, 4) THEN <<3, 4>>
    ELSE IF Close(width, height, 3, 2) THEN <<3, 2>>
    ELSE IF Close(width, height, 2, 3) THEN <<2, 3>>
    ELSE IF width > height THEN <<16, 9>>
    ELSE <<9, 16>>

\* Config.INSTAGRAM_SIZES and Config.DEFAULT_SIZE.
INSTAGRAM_SIZES ==
    ("square" :> <<1080, 1080>>) @@ ("portrait" :> <<1080, 1352>>)
    @@ ("landscape" :> <<1080, 568>>) @@ ("story" :> <<1080, 1920>>)

DEFAULT_SIZE == 1024

\* Widths and heights handed to the function: a grid of small values, the sides
\* of the configured sizes, and 53, 80 and 1200 for the ratios 53/80 and 9/10.
Dims ==
    (1..MaxDim) \cup {53, 80, 1200, DEFAULT_SIZE}
    \cup {INSTAGRAM_SIZES[k][i] : k \in DOMAIN INSTAGRAM_SIZES, i \in 1..2}

flux_aspect_ratio_call(width, height) ==
    /\ fn = NoCall
    /\ fn' = [op |-> "get_flux_aspect_ratio",
              args |-> [width |-> width, height |-> height],
              result |-> get_flux_aspect_ratio(width, height)]
    /\ UNCHANGED <<jobs, table, made, task, lock, now, token, rd, http, cli, stamps, sealed, gen, listing>>

----------------------------------------------------------------------------
\* IconGenerator._build_model_params, with the arguments generate hands it.
\* A dict is a function from its keys.

DEFAULT_STEPS == 30
DEFAULT_GUIDANCE_SCALE == 70

\* dict.get(key, default)
Get(dict, key, default) == IF key \in DOMAIN dict THEN dict[key] ELSE default

\* {key: value} if cond else {}
Entry(cond, key, value) == IF cond THEN key :> value ELSE <<>>

\* Variant: the negative prompt is forwarded even when it is empty.
HasNegativePrompt_Always(model_config, negative_prompt) ==
    model_config.supports_negative_prompt

\* `model_config["supports_negative_prompt"] and negative_prompt`
HasNegativePrompt(model_config, negative_prompt) ==
    model_config.supports_negative_prompt /\ negative_prompt # ""

build_model_params(model_config, prompt, negative_prompt, width, height, variations, aspect_ratio, generation_params) ==
    ("prompt" :> prompt)
    @@ Entry(HasNegativePrompt(model_config, negative_prompt),
             "negative_prompt", negative_prompt)
    @@ Entry(model_config.supports_num_outputs, "num_outputs", variations)
    @@ (IF model_config.size_param = "width_height"
        THEN ("width" :> width) @@ ("height" :> height)
             @@ ("num_inference_steps" :>
                    Get(generation_params, "steps", model_config.default_steps))
        ELSE IF model_config.size_param = "aspect_ratio"
        THEN ("aspect_ratio" :> get_flux_aspect_ratio(width, height))
             @@ Entry("steps" \in DOMAIN generation_params,
                      "num_inference_steps", Get(generation_params, "steps", 0))
        ELSE <<>>)
    @@ Entry(model_config.default_guidance > 0, "guidance_scale",
             Get(generation_params, "guidance_scale", model_config.default_guidance))
    @@ Entry("scheduler" \in DOMAIN generation_params /\ model_config.supports_negative_prompt,
             "scheduler", Get(generation_params, "scheduler", ""))
    @@ Entry("output_format" \in DOMAIN model_config,
             "output_format", Get(model_config, "output_format", ""))

\* width and height as generate determines them from format and aspect_ratio.
generate_dimensions(format, aspect_ratio) ==
    IF format = "instagram"
    THEN Get(INSTAGRAM_SIZES, aspect_ratio, <<1080, 1080>>)
    ELSE <<DEFAULT_SIZE, DEFAULT_SIZE>>

\* The callers of generate: the commands (`--model`, `--steps`, `--guidance-scale`,
\* the last two with Config's defaults), the work unit of a job (the request's
\* steps and guidance_scale, which default in GenerateRequest; no model), and a
\* direct caller, who passes the keywords it likes.  given: the keywords the
\* user wrote, with their values.
Callers == {"cli", "job", "direct"}

Givens ==
    {s @@ g @@ k : s \in {<<>>, "steps" :> 10, "steps" :> 30},
                   g \in {<<>>, "guidance_scale" :> 50},
                   k \in {<<>>, "scheduler" :> "K_EULER"}}

generation_params_of(caller, given) ==
    IF caller = "direct" THEN given
    ELSE ("steps" :> Get(given, "steps", DEFAULT_STEPS))
         @@ ("guidance_scale" :> Get(given, "guidance_scale", DEFAULT_GUIDANCE_SCALE))

NegativePrompts == {"", "text, watermark"}

build_model_params_call(caller, model, given, negative_prompt, variations, format, aspect_ratio) ==
    /\ fn = NoCall
    /\ caller = "job" => model = DEFAULT_MODEL /\ format = "ios"
    /\ caller # "direct" => "scheduler" \notin DOMAIN given
    /\ LET size == generate_dimensions(format, aspect_ratio)
           generation_params == generation_params_of(caller, given)
       IN fn' = [op |-> "build_model_params",
                 args |-> [caller |-> caller, given |-> given, model |-> model,
                           format |-> format, aspect_ratio |-> aspect_ratio,
                           model_config |-> MODELS[model],
                           negative_prompt |-> negative_prompt,
                           width |-> size[1], height |-> size[2],
                           variations |-> variations,
                           generation_params |-> generation_params],
                 result |-> build_model_params(MODELS[model], "icon of a b", negative_prompt,
                                               size[1], size[2], variations, aspect_ratio,
                                               generation_params)]
    /\ UNCHANGED <<jobs, table, made, task, lock, now, token, rd, http, cli, stamps, sealed, gen, listing>>

----------------------------------------------------------------------------
\* IconProcessor: the sizes of an icon, the sizes of a post, and the variants a
\* work unit records for its job.

\* int(size * 0.2237): the product is not a whole number for a size that is
\* not a multiple of 10000, so truncating the double truncates the exact product.
corner_radius(size) == (size * 2237) \div 10000

\* sorted(sizes, reverse=True)
RECURSIVE sorted_reverse(_)
sorted_reverse(sizes) ==
    IF sizes = <<>> THEN <<>>
    ELSE LET i == CHOOSE i \in DOMAIN sizes :
                      /\ \A k \in DOMAIN sizes : sizes[k] <= sizes[i]
                      /\ \A k \in 1..(i - 1) : sizes[k] < sizes[i]
         IN <<sizes[i]>>
            \o sorted_reverse(SubSeq(sizes, 1, i - 1) \o SubSeq(sizes, i + 1, Len(sizes)))

\* The files generate_all_sizes writes, in the order it returns them; radius is
\* the corner radius of the mask, None for a plain resize.
generate_all_sizes(sizes, apply_mask, remove_bg) ==
    LET order == sorted_reverse(IF sizes = None THEN IOS_ICON_SIZES ELSE sizes[1])
    IN [i \in DOMAIN order |->
           [size |-> order[i], filename |-> AppIconName(order[i]),
            radius |-> IF apply_mask THEN Some(corner_radius(order[i])) ELSE None,
            background_removed |-> remove_bg]]

SizeLists == {None, Some(<<120, 1024>>), Some(<<40, 60, 40>>)}

generate_all_sizes_call(sizes, apply_mask, remove_bg) ==
    /\ fn = NoCall
    /\ fn' = [op |-> "generate_all_sizes",
              args |-> [sizes |-> sizes, apply_mask |-> apply_mask, remove_bg |-> remove_bg],
              result |-> generate_all_sizes(sizes, apply_mask, remove_bg)]
    /\ UNCHANGED <<jobs, table, made, task, lock, now, token, rd, http, cli, stamps, sealed, gen, listing>>

\* generate_instagram_sizes: the size it resizes to and the file it writes.
generate_instagram_sizes(aspect_ratio) ==
    LET target_size == Get(INSTAGRAM_SIZES, aspect_ratio, <<1080, 1080>>)
    IN [exc |-> None, size |-> target_size,
        filename |-> <<"post-", target_size[1], "x", target_size[2], ".png">>]

generate_instagram_sizes_call(aspect_ratio) ==
    /\ fn = NoCall
    /\ fn' = [op |-> "generate_instagram_sizes",
              args |-> [aspect_ratio |-> aspect_ratio],
              result |-> generate_instagram_sizes(aspect_ratio)]
    /\ UNCHANGED <<jobs, table, made, task, lock, now, token, rd, http, cli, stamps, sealed, gen, listing>>

\* process_generated_icons for originals variant-1..variant-n: by variant, the
\* files of generate_all_sizes.
process_generated_icons(n, remove_bg, apply_mask) ==
    [v \in 1..n |-> generate_all_sizes(None, apply_mask, remove_bg)]

\* sorted(processed_icons, key=lambda x: -x.size)
RECURSIVE sorted_by_size(_)
sorted_by_size(icons) ==
    IF icons = <<>> THEN <<>>
    ELSE LET i == CHOOSE i \in DOMAIN icons :
                      /\ \A k \in DOMAIN icons : icons[k].size <= icons[i].size
                      /\ \A k \in 1..(i - 1) : icons[k].size < icons[i].size
         IN <<icons[i]>>
            \o sorted_by_size(SubSeq(icons, 1, i - 1) \o SubSeq(icons, i + 1, Len(icons)))

\* The post-processing of run_generation and the variants it builds from the
\* originals variant-1..variant-n that generate left in the output directory.
run_generation_variants(n, remove_bg, apply_mask) ==
    LET results == IF remove_bg \/ apply_mask
                   THEN process_generated_icons(n, remove_bg, apply_mask)
                   ELSE <<>>
    IN [idx \in 1..n |->
           [variant_number |-> idx,
            original |-> <<"variant-", idx, ".png">>,
            processed_icons |->
                IF idx \in DOMAIN results
                THEN sorted_by_size([i \in DOMAIN results[idx] |->
                                        [size |-> results[idx][i].size,
                                         filename |-> results[idx][i].filename]])
                ELSE <<>>]]

run_generation_variants_call(n, remove_bg, apply_mask) ==
    /\ fn = NoCall
    /\ fn' = [op |-> "run_generation_variants",
              args |-> [n |-> n, remove_bg |-> remove_bg, apply_mask |-> apply_mask],
              result |-> run_generation_variants(n, remove_bg, apply_mask)]
    /\ UNCHANGED <<jobs, table, made, task, lock, now, token, rd, http, cli, stamps, sealed, gen, listing>>

----------------------------------------------------------------------------
\* IconProcessor._wrap_text.  A text is a sequence of characters; the font is
\* one with a narrow and a wide letter.

Chars == {"i", "w", " "}

\* Width of the box of one character, in pixels.
char_width(c) == IF c = "w" THEN 4 ELSE 1

\* text.split(): the maximal runs of characters that are not spaces.
RECURSIVE split(_)
split(text) ==
    LET t == LStrip(text)
    IN IF t = <<>> THEN <<>>
       ELSE LET ends == {i \in DOMAIN t : t[i] = " "} \cup {Len(t) + 1}
                n == CHOOSE i \in ends : \A k \in ends : i <= k
            IN <<SubSeq(t, 1, n - 1)>> \o split(SubSeq(t, n, Len(t)))

\* ' '.join(words)
RECURSIVE join(_)
join(words) ==
    IF words = <<>> THEN <<>>
    ELSE IF Len(words) = 1 THEN words[1]
    ELSE words[1] \o <<" ">> \o join(Tail(words))

RECURSIVE sum_widths(_)
sum_widths(text) ==
    IF text = <<>> THEN 0 ELSE char_width(Head(text)) + sum_widths(Tail(text))

\* The measured width of a line: the width of its box, or with a letter spacing
\* the widths of its characters and int(font.size * spacing) pixels between
\* each two of them.
text_width(text, letter_spacing) ==
    IF letter_spacing > 0 /\ text # <<>>
    THEN sum_widths(text) + letter_spacing * (Len(text) - 1)
    ELSE sum_widths(text)

\* Variant: a line that is exactly as wide as the maximum does not fit.
Fits_Strict(line_width, max_width) == line_width < max_width

\* `line_width <= max_width`
Fits(line_width, max_width) == line_width <= max_width

\* The loop over the words, from the state (lines, current_line).
RECURSIVE wrap_words(_, _, _, _, _)
wrap_words(words, lines, current_line, max_width, letter_spacing) ==
    IF words = <<>>
    THEN IF current_line # <<>> THEN Append(lines, join(current_line)) ELSE lines
    ELSE LET word == Head(words)
             test_line == join(Append(current_line, word))
             line_width == text_width(test_line, letter_spacing)
         IN IF Fits(line_width, max_width)
            THEN wrap_words(Tail(words), lines, Append(current_line, word),
                            max_width, letter_spacing)
            ELSE wrap_words(Tail(words),
                            IF current_line # <<>>
                            THEN Append(lines, join(current_line)) ELSE lines,
                            <<word>>, max_width, letter_spacing)

wrap_text(text, max_width, letter_spacing) ==
    wrap_words(split(text), <<>>, <<>>, max_width, letter_spacing)

Texts == UNION {[1..n -> Chars] : n \in 0..MaxText}

wrap_text_call(text, max_width, letter_spacing) ==
    /\ fn = NoCall
    /\ fn' = [op |-> "wrap_text",
              args |-> [text |-> text, max_width |-> max_width,
                        letter_spacing |-> letter_spacing],
              result |-> wrap_text(text, max_width, letter_spacing)]
    /\ UNCHANGED <<jobs, table, made, task, lock, now, token, rd, http, cli, stamps, sealed, gen, listing>>

----------------------------------------------------------------------------

\* The orchestrator: jobs of any request, their work units, the sweep and the clock.
Next ==
    \/ \E req \in Requests : submit_job(req, MaxJobs)
    \/ \E j \in 1..made : WorkerStep(j)
    \/ \E h \in CleanupAges : cleanup_old_jobs(h)
    \/ Tick

Spec == Init /\ [][Next]_vars

\* One job and a client polling GET /status while its work unit runs.
NextRead ==
    \/ \E req \in Requests : submit_job(req, ReadJobs)
    \/ \E j \in 1..made : WorkerStep(j)
    \/ \E j \in 1..made : get_job(j)
    \/ get_job_status_read
    \/ Tick

ReadSpec == Init /\ [][NextRead]_vars

\* The entry points: POST /generate, the orchestrator entered directly, the commands.
NextEntry ==
    \/ \E req \in EntryRequests : generate_icons(req, EntryJobs)
    \/ \E req \in EntryRequests : submit_job(req, EntryJobs)
    \/ \E j \in 1..made : WorkerStep(j)
    \/ \E c \in {"generate", "instagram"}, req \in EntryRequests : cli_command(c, req)

EntrySpec == Init /\ [][NextEntry]_vars

\* More submissions than JobQueue's executor has workers.
NextPool ==
    \/ generate_icons(ReqIos, PoolJobs)
    \/ \E j \in 1..made : WorkerStep(j)

PoolSpec == Init /\ [][NextPool]_vars

\* Submissions over time and a client of GET /jobs.
NextList ==
    \/ \E req \in Requests : submit_job(req, ListJobs)
    \/ \E limit \in Limits : list_jobs(limit)
    \/ Tick

ListSpec == Init /\ [][NextList]_vars

\* Callers of the generator, for every model, count and generation service.
NextGen ==
    \E req \in EntryRequests, model \in ModelKeys, n \in 1..MaxVariations, b \in Backends :
        generate_call(req, model, n, b)

GenSpec == Init /\ [][NextGen]_vars

\* Direct callers of the functions of the generator and the post-processor.
NextFn ==
    \/ \E width, height \in Dims : flux_aspect_ratio_call(width, height)
    \/ \E caller \in Callers, model \in DOMAIN MODELS, given \in Givens,
          negative_prompt \in NegativePrompts, variations \in 1..MaxVariations,
          format \in {"ios", "instagram"}, aspect_ratio \in DOMAIN INSTAGRAM_SIZES \cup {"banner"} :
            build_model_params_call(caller, model, given, negative_prompt, variations,
                                    format, aspect_ratio)
    \/ \E sizes \in SizeLists, apply_mask, remove_bg \in BOOLEAN :
            generate_all_sizes_call(sizes, apply_mask, remove_bg)
    \/ \E aspect_ratio \in DOMAIN INSTAGRAM_SIZES \cup {"banner"} :
            generate_instagram_sizes_call(aspect_ratio)
    \/ \E n \in 1..MaxVariations, remove_bg, apply_mask \in BOOLEAN :
            run_generation_variants_call(n, remove_bg, apply_mask)

FnSpec == Init /\ [][NextFn]_vars

\* Direct callers of the text wrapping, for every text, width and letter spacing.
NextWrap ==
    \E text \in Texts, max_width \in 1..MaxWidth, letter_spacing \in {0, 1} :
        wrap_text_call(text, max_width, letter_spacing)

WrapSpec == Init /\ [][NextWrap]_vars

----------------------------------------------------------------------------
\* Properties.

Ids == 1..made

\* The update_job call that made job j terminal has returned.
Sealed(j) == sealed[j] # None

\* The request asks for the custom style and gives no custom text.
CustomWithoutText(req) == req \in {ReqCustomMissing, ReqCustomEmpty}

\* C1: a job's status changes only PENDING -> PROCESSING, PROCESSING -> COMPLETED
\* or PROCESSING -> FAILED, whatever the interleaving of submissions and work units.
C1_StatusMovesForward ==
    [][\A j \in Ids :
          jobs'[j].status # jobs[j].status =>
              <<jobs[j].status, jobs'[j].status>> \in
                  {<<PENDING, PROCESSING>>, <<PROCESSING, COMPLETED>>, <<PROCESSING, FAILED>>}]_vars

\* Two jobs side by side: one has gone PENDING -> PROCESSING -> FAILED, the other is PROCESSING.
C1_Witness ==
    /\ made = 2
    /\ jobs[1].status = FAILED /\ jobs[1].output_dir # None
    /\ jobs[2].status = PROCESSING

\* C2: once the update that made a job COMPLETED or FAILED has returned, no step
\* changes any field of the job, and the job leaves the table only by cleanup_old_jobs.
C2_TerminalImmutable ==
    [][\A j \in Ids :
          Sealed(j) =>
              /\ jobs'[j] = sealed[j][1]
              /\ (j \in table /\ j \notin table') => \E h \in CleanupAges : cleanup_old_jobs(h)]_vars

\* A FAILED job whose unit has ended, swept from the table after the clock moved on.
C2_Witness ==
    \E j \in Ids :
        /\ Sealed(j) /\ jobs[j].status = FAILED
        /\ task[j].pc = "done"
        /\ j \notin table
        /\ now > jobs[j].completed_at[1]

C4_CustomNeverProcessing ==
    \A j \in Ids : CustomWithoutText(jobs[j].request) => jobs[j].status # PROCESSING

\* C5: a request with style=custom and empty or missing custom text gets the
\* validation error on every entry path (POST /generate answers 400 and creates no
\* job; the work unit fails with the custom-style error; the command aborts) and
\* never reaches the generator, where the backend is called.
C5_CustomStyleRejected ==
    /\ (http.code # 0 /\ CustomWithoutText(http.request)) =>
           (http.code = 400 /\ http.detail = CustomStyleError /\ http.job_id = 0)
    /\ \A j \in Ids :
           CustomWithoutText(jobs[j].request) =>
               /\ task[j].pc \notin {"config", "outdir", "generate", "backend"}
               /\ task[j].dir = None
               /\ task[j].exc \in {None, Some(CustomStyleError)}
               /\ task[j].pc \in {"finally", "done"} => jobs[j].error = Some(CustomStyleError)
    /\ (cli.command # "none" /\ CustomWithoutText(cli.request)) =>
           (cli.outcome = "custom_style_required" /\ ~cli.generate_called)

\* All three entry paths have turned such a request down.
C5_Witness ==
    /\ http.code = 400 /\ http.request = ReqCustomEmpty
    /\ cli.outcome = "custom_style_required" /\ cli.request = ReqCustomEmpty
    /\ \E j \in Ids :
           /\ jobs[j].request = ReqCustomEmpty
           /\ task[j].pc = "done"
           /\ jobs[j].error = Some(CustomStyleError)

\* C6: a job that ended FAILED has progress 0, a non-empty error text and a
\* completion timestamp.
C6_FailedHasCause ==
    \A j \in Ids :
        (Sealed(j) /\ jobs[j].status = FAILED) =>
            /\ jobs[j].progress = 0
            /\ jobs[j].error # None /\ jobs[j].error[1] # ""
            /\ jobs[j].completed_at # None

\* C7: a work unit that has started and ended has left its job COMPLETED or FAILED.
C7_UnitEndsTerminal ==
    \A j \in Ids :
        task[j].pc \in {"done", "crashed"} => jobs[j].status \in TerminalStatuses

\* C8: a response of the status endpoint shows one update whole: COMPLETED comes with
\* progress 100, the completion time and the final variants; FAILED with progress 0,
\* the completion time and the error; PENDING and PROCESSING with neither.
C8_NoTornRead ==
    rd.pc = "done" =>
        LET s == rd.snap IN
        /\ s.status = Some(COMPLETED) =>
               /\ s.progress = Some(100)
               /\ s.completed_at[1] # None
               /\ s.variants = Some(jobs[rd.job].variants)
        /\ s.status = Some(FAILED) =>
               /\ s.progress = Some(0)
               /\ s.completed_at[1] # None
               /\ s.error[1] # None
        /\ s.status[1] \in {PENDING, PROCESSING} =>
               /\ s.completed_at[1] = None
               /\ s.error[1] = None

\* C10: at most max_workers jobs are PROCESSING at any moment.
C10_PoolBound ==
    Cardinality({j \in Ids : jobs[j].status = PROCESSING}) <= max_workers

\* C11: the progress values a concurrent reader reads from a job while the job is
\* PENDING or PROCESSING never decrease.
C11_ReaderProgressMonotone ==
    \A j \in DOMAIN rd.seen : rd.seen[j][1] <= rd.seen[j][2]

\* The reader has read 5 and then 10 from a job that has since FAILED with progress 0.
C11_Witness ==
    \E j \in DOMAIN rd.seen :
        /\ rd.seen[j] = <<5, 10>>
        /\ jobs[j].status = FAILED /\ jobs[j].progress = 0

\* C12: a job's progress stays within 0..100 and no step lowers it, from creation
\* through the update that makes the job COMPLETED or FAILED.
C12_ProgressNeverDecreases ==
    [][\A j \in Ids :
          /\ jobs'[j].progress \in 0..100
          /\ jobs'[j].progress >= jobs[j].progress]_vars

\* The job's unit ran generate against a service that returns one image for each
\* requested variation, and has ended.
RanAgainstImages(j) ==
    /\ task[j].pc = "done"
    /\ task[j].backend = Some(Backend(0, jobs[j].request.variations))

\* C13: against a service that returns V images, a request for V variations with
\* the mask on ends COMPLETED with exactly V variants, each holding exactly one
\* artifact per icon size, named AppIcon-{size}.png.
C13_StubBackendCompletes ==
    \A j \in Ids :
        (RanAgainstImages(j) /\ jobs[j].request.apply_mask) =>
            /\ jobs[j].status = COMPLETED
            /\ Len(jobs[j].variants) = jobs[j].request.variations
            /\ \A v \in DOMAIN jobs[j].variants :
                   LET icons == jobs[j].variants[v].processed_icons
                   IN /\ Len(icons) = Len(IOS_ICON_SIZES)
                      /\ {icons[i].filename : i \in DOMAIN icons} =
                             {AppIconName(IOS_ICON_SIZES[i]) : i \in DOMAIN IOS_ICON_SIZES}

\* generate was called for a model without num_outputs, with a well-formed subject,
\* against a service whose every call returns an image.
FanOutAgainstImages ==
    /\ gen.called
    /\ gen.model \in DOMAIN MODELS /\ ~MODELS[gen.model].supports_num_outputs
    /\ gen.request.subject = SubjectAB
    /\ gen.backend.fails_at = 0 /\ gen.backend.output >= 1

\* C14: for a model without multi-output support and N requested variations the
\* service is called exactly N times and the result is exactly the variants
\* 1..N, variant k being the image of the k-th call.
C14_FanOutCallsInOrder ==
    FanOutAgainstImages =>
        /\ gen.result.exc = None
        /\ gen.result.calls = gen.variations
        /\ gen.result.paths = [k \in 1..gen.variations |-> k]

\* C18: a sweep removes no PENDING or PROCESSING job, whatever the job's age and
\* the threshold, and changes no job; the jobs it does not remove stay stored.
C18_SweepSparesActiveJobs ==
    [][(table' # table /\ made' = made) =>
          /\ table' \subseteq table
          /\ jobs' = jobs
          /\ \A j \in table \ table' : jobs[j].status \notin {PENDING, PROCESSING}]_vars

\* A FAILED job has been swept while a job created no later, and before the
\* current second, is still stored and still PENDING or PROCESSING.
C18_Witness ==
    \E j, i \in Ids :
        /\ j \notin table /\ jobs[j].status = FAILED
        /\ i \in table /\ jobs[i].status \in {PENDING, PROCESSING}
        /\ jobs[i].created_at <= jobs[j].created_at
        /\ jobs[i].created_at < now

\* C19: a sweep with threshold h removes a COMPLETED or FAILED job exactly when
\* more than h hours have passed since the job's completion timestamp.
C19_SweepByCompletionAge ==
    [][\A h \in CleanupAges :
          cleanup_old_jobs(h) =>
              \A j \in table :
                  jobs[j].status \in TerminalStatuses =>
                      (j \notin table' <=>
                          (now - jobs[j].completed_at[1]) > SecondsPerHour * h)]_vars

\* The number of jobs list_jobs is to return: the limit, at most what is stored, and
\* none for a limit of zero or less.
Wanted(limit, stored) ==
    IF limit <= 0 THEN 0
    ELSE IF limit < Cardinality(stored) THEN limit ELSE Cardinality(stored)

\* C20: list_jobs(limit) returns the min(limit, number of stored jobs) most recently
\* created jobs, newest first, for every limit including zero and negative ones.
C20_ListMostRecent ==
    listing.called =>
        LET r == listing.result
            listed == {r[k] : k \in DOMAIN r}
        IN /\ Len(r) = Wanted(listing.limit, listing.stored)
           /\ Cardinality(listed) = Len(r)
           /\ listed \subseteq listing.stored
           /\ \A k \in 1..(Len(r) - 1) : jobs[r[k]].created_at >= jobs[r[k + 1]].created_at
           /\ \A j \in listed, i \in listing.stored \ listed :
                  jobs[j].created_at >= jobs[i].created_at

\* C21: a job is PENDING with progress 0, no variants, no error and no completion
\* timestamp from its creation until its work unit begins; the first step of the
\* unit leaves it PROCESSING with a progress greater than 0.
C21_NewJobPending ==
    \A j \in Ids :
        /\ task[j].pc = "queued" =>
               /\ jobs[j].status = PENDING /\ jobs[j].progress = 0
               /\ jobs[j].variants = <<>> /\ jobs[j].error = None
               /\ jobs[j].completed_at = None
        /\ task[j].pc = "validate" =>
               jobs[j].status = PROCESSING /\ jobs[j].progress > 0

\* A job waits PENDING past the second of its creation while the unit of a later
\* job has made its first step.
C21_Witness ==
    \E j, i \in Ids :
        /\ j < i
        /\ task[j].pc = "queued" /\ jobs[j].status = PENDING /\ now > jobs[j].created_at
        /\ task[i].pc = "validate" /\ jobs[i].status = PROCESSING /\ jobs[i].progress = 5

\* C22: in every state of every job, error is set only if the status is FAILED
\* and metadata is set only if the status is COMPLETED.
C22_ErrorOnlyFailed ==
    \A j \in Ids :
        /\ jobs[j].error # None => jobs[j].status = FAILED
        /\ jobs[j].metadata # None => jobs[j].status = COMPLETED

\* One job is FAILED with its error assigned while another job is PROCESSING
\* without one.
C22_Witness ==
    \E j, i \in Ids :
        /\ jobs[j].status = FAILED /\ jobs[j].error # None
        /\ jobs[i].status = PROCESSING /\ jobs[i].error = None

\* The candidate ratios of the aspect-ratio derivation, in its priority order.
Candidates ==
    <<<<1, 1>>, <<16, 9>>, <<9, 16>>, <<4, 5>>, <<5, 4>>, <<4, 3>>, <<3, 4>>,
      <<3, 2>>, <<2, 3>>>>

\* |width / height - c[1] / c[2]| < 1/10, in exact arithmetic.
WithinTolerance(width, height, c) ==
    10 * Abs(width * c[2] - c[1] * height) < height * c[2]

\* The first candidate within the tolerance, else 16:9 for a landscape and 9:16
\* for any other shape.
FirstWithinTolerance(width, height) ==
    LET hits == {i \in DOMAIN Candidates : WithinTolerance(width, height, Candidates[i])}
    IN IF hits # {}
       THEN Candidates[CHOOSE i \in hits : \A k \in hits : i <= k]
       ELSE IF width > height THEN <<16, 9>> ELSE <<9, 16>>

\* C23: for all positive widths and heights the derivation returns the first of
\* 1:1, 16:9, 9:16, 4:5, 5:4, 4:3, 3:4, 3:2, 2:3 whose ratio differs from
\* width / height by less than 0.1, else 16:9 if width > height and 9:16
\* otherwise; 1080x1080 gives 1:1, 1080x1920 gives 9:16, 1080x568 gives 16:9.
C23_FirstLabelWithinTolerance ==
    fn.op = "get_flux_aspect_ratio" =>
        /\ fn.result = FirstWithinTolerance(fn.args.width, fn.args.height)
        /\ fn.args = [width |-> 1080, height |-> 1080] => fn.result = <<1, 1>>
        /\ fn.args = [width |-> 1080, height |-> 1920] => fn.result = <<9, 16>>
        /\ fn.args = [width |-> 1080, height |-> 568] => fn.result = <<16, 9>>

\* C24: whenever a candidate ratio is within the tolerance of width / height,
\* the label returned is the one nearest to width / height; the exact ratios
\* 3:4, 4:3 and 2:3 return their own label.
C24_NearestLabel ==
    fn.op = "get_flux_aspect_ratio" =>
        LET w == fn.args.width
            h == fn.args.height
            r == fn.result
        IN (\E i \in DOMAIN Candidates : WithinTolerance(w, h, Candidates[i])) =>
               \A i \in DOMAIN Candidates :
                   LET c == Candidates[i]
                   IN Abs(w * r[2] - r[1] * h) * c[2] <= Abs(w * c[2] - c[1] * h) * r[2]

\* C25: for a backend whose size parameter is a named aspect ratio the
\* parameters hold an inference-step count only when the user gave one; a command
\* or a job in which the user gave none sends no step count to such a backend.
C25_StepsOnlyIfOverridden ==
    (/\ fn.op = "build_model_params"
     /\ fn.args.caller \in {"cli", "job"}
     /\ fn.args.model_config.size_param = "aspect_ratio") =>
        ("num_inference_steps" \in DOMAIN fn.result <=> "steps" \in DOMAIN fn.args.given)

\* The keys the capability rules allow for a descriptor: the prompt, the three
\* capability keys, the keys of the descriptor's size shape with the step count,
\* and the forced output encoding of a descriptor that has one.
AllowedKeys(model_config) ==
    {"prompt", "negative_prompt", "num_outputs", "guidance_scale", "num_inference_steps"}
    \cup (IF model_config.size_param = "width_height" THEN {"width", "height"}
          ELSE {"aspect_ratio"})
    \cup (IF "output_format" \in DOMAIN model_config THEN {"output_format"} ELSE {})

RoundedRadius(size) == (size * 2237 + 5000) \div 10000

\* C27: for every size of the default size list the corner radius of the mask
\* is size * 0.2237 rounded to the nearest integer; for size 180 it is 40.
C27_CornerRadiusRounded ==
    (fn.op = "generate_all_sizes" /\ fn.args.sizes = None /\ fn.args.apply_mask) =>
        \A i \in DOMAIN fn.result :
            /\ fn.result[i].radius = Some(RoundedRadius(fn.result[i].size))
            /\ fn.result[i].size = 180 => fn.result[i].radius = Some(40)

\* C28: an aspect ratio that is not one of the supported ones is rejected with
\* an error before anything is produced for it, and is never replaced by a
\* default size: no parameters are built for it and no post is sized for it.
C28_UnknownAspectRatioRejected ==
    /\ (fn.op = "generate_instagram_sizes"
        /\ fn.args.aspect_ratio \notin DOMAIN INSTAGRAM_SIZES) =>
           fn.result.exc # None
    /\ fn.op = "build_model_params" /\ fn.args.format = "instagram" =>
           fn.args.aspect_ratio \in DOMAIN INSTAGRAM_SIZES

\* C30: every variant a job records carries one artifact per target size,
\* whatever the apply-mask and remove-background flags are.
C30_ArtifactPerSize ==
    fn.op = "run_generation_variants" =>
        \A v \in DOMAIN fn.result :
            /\ Len(fn.result[v].processed_icons) = Len(IOS_ICON_SIZES)
            /\ {fn.result[v].processed_icons[i].size : i \in DOMAIN fn.result[v].processed_icons}
                  = {IOS_ICON_SIZES[i] : i \in DOMAIN IOS_ICON_SIZES}

\* The words of the lines, line after line.
RECURSIVE WordsOf(_)
WordsOf(lines) == IF lines = <<>> THEN <<>> ELSE split(Head(lines)) \o WordsOf(Tail(lines))

\* C29: the lines _wrap_text returns are those of the greedy wrapping: the words
\* once each in their order, each line its words joined by single spaces and
\* none empty; a line of several words is at most max_width wide; a word wider
\* than max_width is alone on its line; the first word of a line would not have
\* fitted at the end of the line before; a text of one word gives one line.
C29_GreedyWrap ==
    fn.op = "wrap_text" =>
        LET lines == fn.result
            words == split(fn.args.text)
            max_width == fn.args.max_width
            W(line) == text_width(line, fn.args.letter_spacing)
        IN /\ WordsOf(lines) = words
           /\ \A i \in DOMAIN lines :
                  /\ split(lines[i]) # <<>>
                  /\ lines[i] = join(split(lines[i]))
                  /\ Len(split(lines[i])) > 1 => W(lines[i]) <= max_width
                  /\ \A k \in DOMAIN split(lines[i]) :
                         W(split(lines[i])[k]) > max_width => Len(split(lines[i])) = 1
           /\ \A i \in 1..(Len(lines) - 1) :
                  W(lines[i] \o <<" ">> \o split(lines[i + 1])[1]) > max_width
           /\ Len(words) = 1 => lines = <<words[1]>>

\* A wrapping with a line of several words exactly max_width wide and a word
\* wider than max_width alone on another line.
C29_Witness ==
    /\ fn.op = "wrap_text"
    /\ \E i, k \in DOMAIN fn.result :
           /\ Len(split(fn.result[i])) > 1
           /\ text_width(fn.result[i], fn.args.letter_spacing) = fn.args.max_width
           /\ Len(split(fn.result[k])) = 1
           /\ text_width(fn.result[k], fn.args.letter_spacing) > fn.args.max_width

====
